---- MODULE Spec2Model ----
(***************************************************************************)
(* A model of src/database/abstraction/heed.rs: the Engine/EngineTree      *)
(* key-value layer over an LMDB environment (heed).                        *)
(*                                                                         *)
(* The store itself (heed/LMDB), the thread pool (threadpool crate) and    *)
(* the bounded channel (crossbeam) are external collaborators; they are    *)
(* modelled at their interface: snapshot-isolated read transactions, one   *)
(* write transaction at a time, ordered cursors, a FIFO job queue served   *)
(* by max_count workers, a bounded channel whose send fails once the       *)
(* receiver is gone.  super::watchers::Watchers and crate::utils::increment*)
(* are not part of the source at hand and are modelled from the            *)
(* specification text.                                                     *)
(***************************************************************************)
EXTENDS Integers, Sequences, FiniteSets, TLC

(***************************************************************************)
(* Bounds of the model.                                                    *)
(***************************************************************************)
\* Calls of get/insert/remove/increment/watch_prefix made in one behaviour.
MaxOps == 3
\* Calls of iter_from/scan_prefix made in one behaviour of the pool model.
MaxScans == 3
\* The pool's max_count (ThreadPool::new(10) in the program), scaled down.
MaxCount == 2
\* The channel's capacity (bounded(100) in the program), scaled down; the
\* channel holds more than one pair, so that the order of the hand-off shows.
ChannelCap == 2
\* The EngineTree handles open_tree makes in one behaviour, those of the
\* initial state included.
MaxTrees == 4

(***************************************************************************)
(* Keys and values: byte strings.  Keys are ordered lexicographically over *)
(* bytes (LMDB's default comparator).  LMDB does not store empty keys, so  *)
(* stored keys are non-empty; `from` and `prefix` arguments may be empty.  *)
(***************************************************************************)
Keys == {<<1>>, <<1, 1>>, <<1, 2>>, <<2>>}
Froms == Keys \cup {<<>>}
Values == {<<1>>, <<2>>}
Names == {"a", "b"}
\* The namespaces of the tree handles the callers hold: two handles of one
\* namespace and one of another.
TreeNames == <<"a", "a", "b">>
\* The keys and prefixes the point operations and watchers are called with.
OpKeys == {<<1>>, <<1, 2>>}
Prefixes == {<<>>, <<1>>, <<1, 2>>}
Threads == {1, 2}

None == <<>>
Some(v) == <<v>>

Min(a, b) == IF a < b THEN a ELSE b

\* a < b in lexicographic byte order
KeyLess(a, b) ==
    \E i \in 1..(Min(Len(a), Len(b)) + 1) :
        /\ \A j \in 1..(i - 1) : a[j] = b[j]
        /\ \/ i > Len(a) /\ i <= Len(b)
           \/ i <= Len(a) /\ i <= Len(b) /\ a[i] < b[i]

KeyLeq(a, b) == a = b \/ KeyLess(a, b)

\* key.starts_with(&prefix)
StartsWith(key, prefix) ==
    /\ Len(prefix) <= Len(key)
    /\ \A i \in 1..Len(prefix) : key[i] = prefix[i]

(***************************************************************************)
(* crate::utils::increment: the successor of a fixed-width big-endian      *)
(* counter; an absent (or malformed) old value counts as zero.             *)
(***************************************************************************)
IncWidth == 8

RECURSIVE BeDigits(_, _)
BeDigits(n, w) ==
    IF w = 0 THEN <<>> ELSE Append(BeDigits(n \div 256, w - 1), n % 256)

\* n.to_be_bytes()
ToBeBytes(n) == BeDigits(n, IncWidth)

\* u64::from_be_bytes(b) + 1, as bytes: add one at byte i with carry to the left
\* (the sum wraps at the width)
RECURSIVE AddOneAt(_, _)
AddOneAt(b, i) ==
    IF i = 0 THEN b
    ELSE IF b[i] = 255 THEN AddOneAt([b EXCEPT ![i] = 0], i - 1)
    ELSE [b EXCEPT ![i] = b[i] + 1]

\* utils::increment(old): old is an Option of a byte string
UtilsIncrement(old) ==
    IF old # None /\ Len(old[1]) = IncWidth
    THEN AddOneAt(old[1], IncWidth)
    ELSE ToBeBytes(1)

(***************************************************************************)
(* State.                                                                  *)
(***************************************************************************)
VARIABLES
    db,        \* the environment's committed content: namespace -> key -> Option value
    writer,    \* the thread holding LMDB's single write transaction, 0 if none
               \* (-h when the open_tree call that makes handle h holds it)
    hist,      \* history: per namespace and key, the committed writes in commit order
    lastBy,    \* history: per namespace and key, the handle of the last committed write
    trees,     \* the EngineTree handles made by open_tree, in order of creation
    signals,   \* the futures returned by watch_prefix, in order of creation
    thr,       \* per calling thread: the call in progress and its position
    nops,      \* calls made so far
    scans,     \* the scans made by iter_from: job, channel and consumer of each
    queue,     \* the pool's job queue: scans handed to execute and not yet taken
    active,    \* the pool's active_count
    engine     \* the reference counts of the Arc<Engine> and of each handle's
               \* Arc<UntypedDatabase>, the handles the callers still hold, and
               \* whether the environment is open

storeVars == <<db, writer, hist, lastBy>>
scanVars == <<scans, queue, active>>
vars == <<db, writer, hist, lastBy, trees, signals, thr, nops, scans, queue, active,
          engine>>

EmptyNs == [k \in Keys |-> None]
EmptyDb == [n \in Names |-> EmptyNs]
EmptyHist == [n \in Names |-> [k \in Keys |-> <<>>]]
NoHandle == [n \in Names |-> [k \in Keys |-> 0]]

NoRet == [tag |-> "none", val |-> None]
OkRet(opt) == [tag |-> "ok", val |-> opt]
ErrRet == [tag |-> "err", val |-> None]

NoWrite == [op |-> "none", val |-> <<>>, h |-> 0]

IdleThread ==
    [pc |-> "idle", op |-> "none", h |-> 0, key |-> <<>>, val |-> <<>>,
     txn |-> EmptyNs, ret |-> NoRet, expect |-> NoWrite, after |-> FALSE]

\* The last committed write of (namespace, key), as recorded by the history.
LastWrite(n, k) ==
    IF hist[n][k] = <<>> THEN NoWrite
    ELSE [op |-> hist[n][k][Len(hist[n][k])].op,
          val |-> hist[n][k][Len(hist[n][k])].val,
          h |-> lastBy[n][k]]

\* The EngineTree handles that open_tree has returned.
Handles == {h \in DOMAIN trees : trees[h].state = "open"}

\* The calls of open_tree in progress.
Opening == {h \in DOMAIN trees : trees[h].state \in {"cloned", "txn"}}

\* The namespace a thread's call works on: self.tree
TreeOf(t) == trees[thr[t].h].tree

(***************************************************************************)
(* Engine                                                                  *)
(***************************************************************************)
\* Engine::open: the environment at the configured path is open, with whatever
\* it holds, no transaction is in progress and the pool is idle.
EngineOpen ==
    /\ writer = 0
    /\ queue = <<>>
    /\ active = 0

\* The EngineTree that open_tree makes: the named database of the shared
\* environment and a registry of its own (watchers: Default::default()).  While
\* the call is in progress its state is "cloned" (it has cloned the
\* Arc<Engine>) or "txn" (create_database has its write transaction open);
\* it is "open" once the call has returned it and "failed" if the call has
\* returned an error.
EngineTree(name) == [tree |-> name, watchers |-> {}, state |-> "open"]

\* An Arc<UntypedDatabase> of handle h is dropped.
DropArcTree(e, h) == [e EXCEPT !.treeRc[h] = @ - 1]

\* An Arc<Engine> is dropped; the Engine, and its environment, is dropped with
\* the last reference.
DropArcEngine(e) == [e EXCEPT !.rc = @ - 1, !.open = e.rc - 1 > 0]

\* Engine::open_tree(name) is called through the Arc<Engine> the caller holds
\* and clones it (Arc::clone(self)).
OpenTree(name) ==
    /\ Len(trees) < MaxTrees
    /\ 0 \in engine.held
    /\ trees' = Append(trees, [EngineTree(name) EXCEPT !.state = "cloned"])
    /\ engine' = [engine EXCEPT !.rc = @ + 1, !.treeRc = Append(@, 0)]
    /\ UNCHANGED <<storeVars, signals, thr, nops, scanVars>>

\* create_database opens a write transaction of its own: it waits for the
\* environment's writer slot.  The slot holds -h while the call that makes
\* handle h has it.
OpenTreeTxn(h) ==
    /\ h \in DOMAIN trees
    /\ trees[h].state = "cloned"
    /\ writer = 0
    /\ writer' = 0 - h
    /\ trees' = [trees EXCEPT ![h].state = "txn"]
    /\ UNCHANGED <<engine, db, hist, lastBy, signals, thr, nops, scanVars>>

\* create_database commits: the database exists, created empty if it was
\* absent, and the committed content is as it was; open_tree returns the
\* EngineTree with the one Arc of its database and an empty registry.
OpenTreeCommit(h) ==
    /\ h \in DOMAIN trees
    /\ trees[h].state = "txn"
    /\ writer' = 0
    /\ trees' = [trees EXCEPT ![h].state = "open"]
    /\ engine' = [engine EXCEPT !.treeRc[h] = 1, !.held = @ \cup {h}]
    /\ UNCHANGED <<db, hist, lastBy, signals, thr, nops, scanVars>>

\* create_database fails (write_txn, the creation or the commit returns an
\* error): open_tree returns the error, the clone of the Arc<Engine> is dropped
\* and no handle is made.
OpenTreeFail(h) ==
    /\ h \in Opening
    /\ writer' = IF trees[h].state = "txn" THEN 0 ELSE writer
    /\ trees' = [trees EXCEPT ![h].state = "failed"]
    /\ engine' = DropArcEngine(engine)
    /\ UNCHANGED <<db, hist, lastBy, signals, thr, nops, scanVars>>

\* A step of a call of open_tree.
OpenTreeStep ==
    \/ \E name \in Names : OpenTree(name)
    \/ \E h \in DOMAIN trees : OpenTreeTxn(h)
    \/ \E h \in DOMAIN trees : OpenTreeCommit(h)
    \/ \E h \in DOMAIN trees : OpenTreeFail(h)

\* The references after Engine::open and the first open_tree calls: the callers
\* hold the Arc<Engine> (handle 0) and every EngineTree; each EngineTree holds a
\* clone of the Arc<Engine> and the one Arc of its database.
RefsOf(names) ==
    [rc |-> 1 + Len(names),
     treeRc |-> [h \in DOMAIN names |-> 1],
     held |-> {0} \cup DOMAIN names,
     open |-> TRUE]

\* The references when the callers hold the Engine and a handle of each of
\* TreeNames.
EngineRefs == RefsOf(TreeNames)

\* An Arc<Engine> is dropped, and with it the Arcs in `hs` of handles'
\* databases; the Engine, and its environment, is dropped with the last
\* reference.
Release(e, hs) ==
    [e EXCEPT !.rc = @ - 1,
              !.treeRc = [h \in DOMAIN @ |-> IF h \in hs THEN @[h] - 1 ELSE @[h]],
              !.open = e.rc - 1 > 0]

(***************************************************************************)
(* Calls.  A call is made by an idle thread and then proceeds by steps.    *)
(***************************************************************************)
CallBy(t, op, h, key, val) ==
    /\ thr[t].pc = "idle"
    /\ nops < MaxOps
    /\ nops' = nops + 1
    /\ thr' = [thr EXCEPT ![t] =
                 [IdleThread EXCEPT !.pc = "begin", !.op = op, !.h = h,
                                    !.key = key, !.val = val]]
    /\ UNCHANGED <<engine, storeVars, trees, signals, scanVars>>

GetCall(t, h, key) == CallBy(t, "get", h, key, <<>>)
InsertCall(t, h, key, value) == CallBy(t, "insert", h, key, value)
RemoveCall(t, h, key) == CallBy(t, "remove", h, key, <<>>)
IncrementCall(t, h, key) == CallBy(t, "increment", h, key, <<>>)

\* The call returns: the thread is idle again and holds the call's result.
Return(t, ret) ==
    IF thr[t].op = "get"
    THEN [IdleThread EXCEPT !.op = thr[t].op, !.h = thr[t].h, !.ret = ret,
                       !.expect = thr[t].expect, !.after = thr[t].after]
    ELSE IF ret.tag = "err"
    THEN [IdleThread EXCEPT !.op = thr[t].op, !.h = thr[t].h, !.ret = ret]
    ELSE [IdleThread EXCEPT !.op = thr[t].op, !.ret = ret]

(***************************************************************************)
(* Watchers (super::watchers): the registry of one EngineTree.             *)
(***************************************************************************)
\* Watchers::watch(prefix) on handle h: a new pending single-shot signal,
\* registered in the handle's registry.  (by: the key that completed it; seq:
\* the number of the call that made it; both are history.)
WatchersWatch(h, prefix) ==
    /\ signals' = Append(signals, [h |-> h, prefix |-> prefix, state |-> "pending",
                                   fires |-> 0, by |-> <<>>, seq |-> nops + 1])
    /\ trees' = [trees EXCEPT ![h].watchers = @ \cup {Len(signals) + 1}]

\* The registered signals that wake(key) on handle h completes.
Woken(h, key) == {w \in trees[h].watchers : StartsWith(key, signals[w].prefix)}

\* Watchers::wake(key) on handle h: completes every registered signal whose
\* prefix is a prefix of key and removes it from the registry.
WatchersWake(h, key) ==
    /\ trees' = [trees EXCEPT ![h].watchers = @ \ Woken(h, key)]
    /\ signals' = [w \in DOMAIN signals |->
                     IF w \in Woken(h, key)
                     THEN [signals[w] EXCEPT !.state = "completed",
                                             !.fires = @ + 1, !.by = key]
                     ELSE signals[w]]

(***************************************************************************)
(* Tree::get                                                               *)
(***************************************************************************)
\* A signal that an insert of key k in namespace n has completed.
CompletedBy(n, k) ==
    {w \in DOMAIN signals : /\ signals[w].state = "completed"
                            /\ signals[w].by = k
                            /\ trees[signals[w].h].tree = n}

\* self.engine.env.read_txn(): a snapshot of the committed content (kept for
\* the namespace the call reads).  (expect, after: history, the last committed
\* write of the key and whether a signal completed by an insert of the key
\* exists when the transaction starts.)
ReadTxn(t) ==
    /\ thr[t].pc = "begin"
    /\ thr[t].op = "get"
    /\ thr' = [thr EXCEPT ![t].pc = "body", ![t].txn = db[TreeOf(t)],
                          ![t].expect = LastWrite(TreeOf(t), thr[t].key),
                          ![t].after = CompletedBy(TreeOf(t), thr[t].key) # {}]
    /\ UNCHANGED <<engine, storeVars, trees, signals, nops, scanVars>>

\* self.tree.get(&txn, &key), returned as Ok(Option)
GetRead(t) ==
    /\ thr[t].pc = "body"
    /\ thr[t].op = "get"
    /\ thr' = [thr EXCEPT ![t] = Return(t, OkRet(thr[t].txn[thr[t].key]))]
    /\ UNCHANGED <<engine, storeVars, trees, signals, nops, scanVars>>

(***************************************************************************)
(* Write transactions: insert, remove, increment                           *)
(***************************************************************************)
WriteOps == {"insert", "remove", "increment"}

\* (variant: a transaction that does not wait for the writer slot)
WriteTxn_NoExclusion(t) ==
    /\ thr[t].pc = "begin"
    /\ thr[t].op \in WriteOps
    /\ writer' = t
    /\ thr' = [thr EXCEPT ![t].pc = "body", ![t].txn = db[TreeOf(t)]]
    /\ UNCHANGED <<engine, db, hist, lastBy, trees, signals, nops, scanVars>>

\* self.engine.env.write_txn(): waits for the environment's writer slot; the
\* transaction starts from the committed content (kept for the namespace the
\* call writes)
WriteTxn(t) ==
    /\ thr[t].pc = "begin"
    /\ thr[t].op \in WriteOps
    /\ writer = 0
    /\ writer' = t
    /\ thr' = [thr EXCEPT ![t].pc = "body", ![t].txn = db[TreeOf(t)]]
    /\ UNCHANGED <<engine, db, hist, lastBy, trees, signals, nops, scanVars>>

\* (variant: key and value swapped in the put)
InsertPut_Swapped(t) ==
    /\ thr[t].pc = "body"
    /\ thr[t].op = "insert"
    /\ thr' = [thr EXCEPT ![t].pc = "commit",
                          ![t].txn[thr[t].val] = Some(thr[t].key)]
    /\ UNCHANGED <<engine, storeVars, trees, signals, nops, scanVars>>

\* self.tree.put(&mut txn, &key, &value)
InsertPut(t) ==
    /\ thr[t].pc = "body"
    /\ thr[t].op = "insert"
    /\ thr' = [thr EXCEPT ![t].pc = "commit",
                          ![t].txn[thr[t].key] = Some(thr[t].val)]
    /\ UNCHANGED <<engine, storeVars, trees, signals, nops, scanVars>>

\* (variant: a delete that clears the whole namespace)
RemoveDelete_Clear(t) ==
    /\ thr[t].pc = "body"
    /\ thr[t].op = "remove"
    /\ thr' = [thr EXCEPT ![t].pc = "commit",
                          ![t].txn = [k \in Keys |-> None]]
    /\ UNCHANGED <<engine, storeVars, trees, signals, nops, scanVars>>

\* self.tree.delete(&mut txn, &key): Ok whether or not the key is present
RemoveDelete(t) ==
    /\ thr[t].pc = "body"
    /\ thr[t].op = "remove"
    /\ thr' = [thr EXCEPT ![t].pc = "commit",
                          ![t].txn[thr[t].key] = None]
    /\ UNCHANGED <<engine, storeVars, trees, signals, nops, scanVars>>

\* old = self.tree.get(&txn, &key); new = utils::increment(old); put(key, new)
IncrementPut(t) ==
    /\ thr[t].pc = "body"
    /\ thr[t].op = "increment"
    /\ LET old == thr[t].txn[thr[t].key]
           new == UtilsIncrement(old)
       IN thr' = [thr EXCEPT ![t].pc = "commit", ![t].val = new,
                             ![t].txn[thr[t].key] = Some(new)]
    /\ UNCHANGED <<engine, storeVars, trees, signals, nops, scanVars>>

\* txn.commit(): the transaction's content becomes the committed content of
\* the namespace it wrote and the writer slot is free again.
Commit(t) ==
    /\ db' = [db EXCEPT ![TreeOf(t)] = thr[t].txn]
    /\ writer' = IF writer = t THEN 0 ELSE writer
    /\ hist' = [hist EXCEPT ![TreeOf(t)][thr[t].key] =
                  Append(@, [op |-> thr[t].op, val |-> thr[t].val])]
    /\ lastBy' = [lastBy EXCEPT ![TreeOf(t)][thr[t].key] = thr[t].h]

\* (variant: remove wakes the watchers as insert does)
RemoveCommit_Wakes(t) ==
    /\ thr[t].pc = "commit"
    /\ thr[t].op = "remove"
    /\ Commit(t)
    /\ WatchersWake(thr[t].h, thr[t].key)
    /\ thr' = [thr EXCEPT ![t] = Return(t, OkRet(None))]
    /\ UNCHANGED <<engine, nops, scanVars>>

\* (variant: the write transaction is still open when insert goes on to wake)
InsertCommit_TxnOpen(t) ==
    /\ thr[t].pc = "commit"
    /\ thr[t].op = "insert"
    /\ db' = [db EXCEPT ![TreeOf(t)] = thr[t].txn]
    /\ hist' = [hist EXCEPT ![TreeOf(t)][thr[t].key] =
                  Append(@, [op |-> thr[t].op, val |-> thr[t].val])]
    /\ lastBy' = [lastBy EXCEPT ![TreeOf(t)][thr[t].key] = thr[t].h]
    /\ thr' = [thr EXCEPT ![t].pc = "wake"]
    /\ UNCHANGED <<engine, writer, trees, signals, nops, scanVars>>

\* (variant: insert goes on to wake although nothing was committed)
InsertCommit_Lost(t) ==
    /\ thr[t].pc = "commit"
    /\ thr[t].op = "insert"
    /\ writer' = IF writer = t THEN 0 ELSE writer
    /\ thr' = [thr EXCEPT ![t].pc = "wake", ![t].txn = EmptyNs]
    /\ UNCHANGED <<engine, db, hist, lastBy, trees, signals, nops, scanVars>>

\* insert: txn.commit(), wake still to come
InsertCommit(t) ==
    /\ thr[t].pc = "commit"
    /\ thr[t].op = "insert"
    /\ Commit(t)
    /\ thr' = [thr EXCEPT ![t].pc = "wake", ![t].txn = EmptyNs]
    /\ UNCHANGED <<engine, trees, signals, nops, scanVars>>

\* remove: txn.commit(); Ok(())
RemoveCommit(t) ==
    /\ thr[t].pc = "commit"
    /\ thr[t].op = "remove"
    /\ Commit(t)
    /\ thr' = [thr EXCEPT ![t] = Return(t, OkRet(None))]
    /\ UNCHANGED <<engine, trees, signals, nops, scanVars>>

\* increment: txn.commit(); Ok(new)
IncrementCommit(t) ==
    /\ thr[t].pc = "commit"
    /\ thr[t].op = "increment"
    /\ Commit(t)
    /\ thr' = [thr EXCEPT ![t] = Return(t, OkRet(Some(thr[t].val)))]
    /\ UNCHANGED <<engine, trees, signals, nops, scanVars>>

\* (variant: a failed commit that leaves the transaction's writes in place)
Fail_Commits(t) ==
    /\ thr[t].pc \in {"begin", "body", "commit"}
    /\ writer' = IF writer = t THEN 0 ELSE writer
    /\ db' = IF thr[t].pc = "commit" THEN [db EXCEPT ![TreeOf(t)] = thr[t].txn]
             ELSE db
    /\ thr' = [thr EXCEPT ![t] = Return(t, ErrRet)]
    /\ UNCHANGED <<engine, hist, lastBy, trees, signals, nops, scanVars>>

\* A store call fails (read_txn, write_txn, get, put, delete or commit returns
\* Err): `?` returns the converted error, dropping the transaction if one is open.
Fail(t) ==
    /\ thr[t].pc \in {"begin", "body", "commit"}
    /\ writer' = IF writer = t THEN 0 ELSE writer
    /\ thr' = [thr EXCEPT ![t] = Return(t, ErrRet)]
    /\ UNCHANGED <<engine, db, hist, lastBy, trees, signals, nops, scanVars>>

(***************************************************************************)
(* Tree::watch_prefix and the wake of insert                               *)
(***************************************************************************)
\* Tree::watch_prefix(prefix): self.watchers.watch(prefix)
WatchPrefix(t, h, prefix) ==
    /\ thr[t].pc = "idle"
    /\ nops < MaxOps
    /\ nops' = nops + 1
    /\ WatchersWatch(h, prefix)
    /\ UNCHANGED <<engine, storeVars, thr, scanVars>>

\* (variant: the value is passed to wake in place of the key)
InsertWake_WrongKey(t) ==
    /\ thr[t].pc = "wake"
    /\ WatchersWake(thr[t].h, thr[t].val)
    /\ thr' = [thr EXCEPT ![t] = Return(t, OkRet(None))]
    /\ UNCHANGED <<engine, storeVars, nops, scanVars>>

\* (variant: insert returns after the commit without waking)
InsertWake_NoWake(t) ==
    /\ thr[t].pc = "wake"
    /\ thr' = [thr EXCEPT ![t] = Return(t, OkRet(None))]
    /\ UNCHANGED <<engine, storeVars, trees, signals, nops, scanVars>>

\* insert, after the commit: self.watchers.wake(key); Ok(())
InsertWake(t) ==
    /\ thr[t].pc = "wake"
    /\ WatchersWake(thr[t].h, thr[t].key)
    /\ thr' = [thr EXCEPT ![t] = Return(t, OkRet(None))]
    /\ UNCHANGED <<engine, storeVars, nops, scanVars>>

(***************************************************************************)
(* Point operations: get, insert, remove and increment through the handles *)
(* of one Engine, called by concurrent threads.                            *)
(***************************************************************************)
Init ==
    /\ EngineOpen
    /\ db = EmptyDb
    /\ trees = [h \in DOMAIN TreeNames |-> EngineTree(TreeNames[h])]
    /\ hist = EmptyHist
    /\ lastBy = NoHandle
    /\ signals = <<>>
    /\ thr = [t \in Threads |-> IdleThread]
    /\ nops = 0
    /\ scans = <<>>
    /\ engine = EngineRefs

Next ==
    \/ OpenTreeStep
    \/ \E t \in Threads, h \in Handles, k \in OpKeys : GetCall(t, h, k)
    \/ \E t \in Threads, h \in Handles, k \in OpKeys, v \in Values : InsertCall(t, h, k, v)
    \/ \E t \in Threads, h \in Handles, k \in OpKeys : RemoveCall(t, h, k)
    \/ \E t \in Threads : ReadTxn(t)
    \/ \E t \in Threads : GetRead(t)
    \/ \E t \in Threads : WriteTxn(t)
    \/ \E t \in Threads : InsertPut(t)
    \/ \E t \in Threads : RemoveDelete(t)
    \/ \E t \in Threads : InsertCommit(t)
    \/ \E t \in Threads : RemoveCommit(t)
    \/ \E t \in Threads : InsertWake(t)
    \/ \E t \in Threads : Fail(t)

Spec == Init /\ [][Next]_vars

NextInc ==
    \/ \E t \in Threads, h \in Handles, k \in OpKeys : IncrementCall(t, h, k)
    \/ \E t \in Threads, h \in Handles, k \in OpKeys : RemoveCall(t, h, k)
    \/ \E t \in Threads : WriteTxn(t)
    \/ \E t \in Threads : IncrementPut(t)
    \/ \E t \in Threads : RemoveDelete(t)
    \/ \E t \in Threads : IncrementCommit(t)
    \/ \E t \in Threads : RemoveCommit(t)
    \/ \E t \in Threads : Fail(t)

SpecInc == Init /\ [][NextInc]_vars

(***************************************************************************)
(* Change notification: watch_prefix and insert through the handles of one *)
(* Engine.                                                                 *)
(***************************************************************************)
NextWatch ==
    \/ \E t \in Threads, h \in Handles, p \in Prefixes : WatchPrefix(t, h, p)
    \/ \E t \in Threads, h \in Handles, k \in OpKeys, v \in Values : InsertCall(t, h, k, v)
    \/ \E t \in Threads : WriteTxn(t)
    \/ \E t \in Threads : InsertPut(t)
    \/ \E t \in Threads : InsertCommit(t)
    \/ \E t \in Threads : InsertWake(t)
    \/ \E t \in Threads : Fail(t)

SpecWatch == Init /\ [][NextWatch]_vars

\* The same beside calls of open_tree.
NextWatchOpen ==
    \/ NextWatch
    \/ OpenTreeStep

SpecWatchOpen == Init /\ [][NextWatchOpen]_vars

\* A thread that has committed its insert goes on to wake the watchers.
SpecWatchFair == SpecWatch /\ \A t \in Threads : WF_vars(InsertWake(t))

\* Watchers, inserts and gets.
NextWatchGet ==
    \/ \E t \in Threads, h \in Handles, p \in Prefixes : WatchPrefix(t, h, p)
    \/ \E t \in Threads, h \in Handles, k \in OpKeys, v \in Values : InsertCall(t, h, k, v)
    \/ \E t \in Threads, h \in Handles, k \in OpKeys : GetCall(t, h, k)
    \/ \E t \in Threads : ReadTxn(t)
    \/ \E t \in Threads : GetRead(t)
    \/ \E t \in Threads : WriteTxn(t)
    \/ \E t \in Threads : InsertPut(t)
    \/ \E t \in Threads : InsertCommit(t)
    \/ \E t \in Threads : InsertWake(t)
    \/ \E t \in Threads : Fail(t)

SpecWatchGet == Init /\ [][NextWatchGet]_vars

\* Watchers beside the writes that do not wake: watch_prefix, remove and
\* increment through the handles of one Engine.
NextNotify ==
    \/ \E t \in Threads, h \in Handles, p \in Prefixes : WatchPrefix(t, h, p)
    \/ \E t \in Threads, h \in Handles, k \in OpKeys : RemoveCall(t, h, k)
    \/ \E t \in Threads, h \in Handles, k \in OpKeys : IncrementCall(t, h, k)
    \/ \E t \in Threads : WriteTxn(t)
    \/ \E t \in Threads : RemoveDelete(t)
    \/ \E t \in Threads : IncrementPut(t)
    \/ \E t \in Threads : RemoveCommit(t)
    \/ \E t \in Threads : IncrementCommit(t)
    \/ \E t \in Threads : Fail(t)

SpecNotify == Init /\ [][NextNotify]_vars

(***************************************************************************)
(* Streaming range iteration.                                              *)
(*                                                                         *)
(* A scan is the job made by iter_from_thread, the bounded channel (s, r)  *)
(* and the consumer's iterator over r.  Its fields:                        *)
(*   h          the handle iter_from was called on                          *)
(*   tree, from, backwards  the job's arguments                            *)
(*   prefix     Some(p) when the iterator is wrapped by scan_prefix(p)     *)
(*   place      "pool" (execute) or "thread" (std::thread::spawn), "none"   *)
(*              while the call has not placed the job                       *)
(*   job        "calling" (iter_from_thread has not yet placed it) |        *)
(*              "queued" (in the pool's queue) | "taken" (a worker has      *)
(*              received it) | "counted" (the worker has counted itself     *)
(*              active) | "spawned" (on a thread of its own) | "running"    *)
(*              (its read transaction is open) | "exiting" (the closure     *)
(*              has returned or unwinds) | "ended"                          *)
(*   owns       what the call, and then the job's closure, still owns of    *)
(*              "tree" (the clone of the handle's Arc<UntypedDatabase>),    *)
(*              "engine" (the clone of the Arc<Engine>) and "s" (the        *)
(*              channel's Sender)                                           *)
(*   snap       the namespace as the job's read transaction sees it        *)
(*   cur        Some(k): the cursor's position, the last key it yielded    *)
(*   hold       Some(pair): the pair the job is sending                    *)
(*   chan       the pairs in the channel                                   *)
(*   rx         the consumer's iterator: "open", "stopped" (take_while has *)
(*              ended it), "done" (it returned None), "dropped"            *)
(*   got        the pairs the iterator has yielded                         *)
(*   failed     the job ended by a panic of one of its unwrap() calls       *)
(*   called     history: per key, the number of writes committed when       *)
(*              iter_from was called                                        *)
(***************************************************************************)
Present(ns) == {k \in Keys : ns[k] # None}

\* The least and the greatest key of a non-empty set of keys.
Least(S) == CHOOSE k \in S : \A x \in S : KeyLeq(k, x)
Greatest(S) == CHOOSE k \in S : \A x \in S : KeyLeq(x, k)

\* The item of a cursor that is an Err: unwrapping it panics.
CursorErr == <<<<>>, <<>>>>

\* The next key of each cursor, None at its end.  cur is the cursor's position.
\* tree.iter(txn): every key, ascending
IterNext(ns, cur) ==
    LET S == {k \in Present(ns) : cur # None => KeyLess(cur[1], k)}
    IN IF S = {} THEN None ELSE Some(Least(S))

\* tree.range(txn, from..): the keys >= from, ascending
RangeNext(ns, from, cur) ==
    LET S == {k \in Present(ns) :
                 /\ KeyLeq(from, k)
                 /\ cur # None => KeyLess(cur[1], k)}
    IN IF S = {} THEN None ELSE Some(Least(S))

\* (variant: an end bound that excludes `from`)
RevRangeNext_Exclusive(ns, from, cur) ==
    LET S == {k \in Present(ns) :
                 /\ KeyLess(k, from)
                 /\ cur # None => KeyLess(k, cur[1])}
    IN IF S = {} THEN None ELSE Some(Greatest(S))

\* tree.rev_range(txn, ..=from): the keys <= from, descending.  With an empty
\* `from` the store cannot position the cursor on the zero-length end bound
\* (MDB_BAD_VALSIZE): the first item is an Err, whatever the content.
RevRangeNext(ns, from, cur) ==
    IF from = <<>> THEN CursorErr
    ELSE LET S == {k \in Present(ns) :
                      /\ KeyLeq(k, from)
                      /\ cur # None => KeyLess(k, cur[1])}
         IN IF S = {} THEN None ELSE Some(Greatest(S))

\* The key the loop of iter_from_thread_work reads next.
CursorNext(sc) ==
    IF sc.backwards
    THEN RevRangeNext(sc.snap, sc.from, sc.cur)
    ELSE IF sc.from = <<>>
         THEN IterNext(sc.snap, sc.cur)
         ELSE RangeNext(sc.snap, sc.from, sc.cur)

ScanIds == DOMAIN scans

\* The pooled jobs whose read transaction is open.
PoolRunning == {j \in ScanIds : scans[j].place = "pool" /\ scans[j].job = "running"}

\* The pooled jobs a worker has counted in active_count and not yet uncounted.
PoolActive ==
    {j \in ScanIds : /\ scans[j].place = "pool"
                     /\ scans[j].job \in {"counted", "running", "exiting"}}

\* The pooled jobs in the hands of a worker: each worker has one job at most.
PoolBusy ==
    {j \in ScanIds : /\ scans[j].place = "pool"
                     /\ scans[j].job \in {"taken", "counted", "running", "exiting"}}

\* What iter_from_thread moves into the job's closure.
Captures == {"tree", "engine", "s"}

\* (variant: the job is given the Engine and the database without a clone of
\* their Arcs)
IterFromThread_Borrows(h, from, backwards, prefix) ==
    /\ Len(scans) < MaxScans
    /\ h \in engine.held
    /\ engine' = engine
    /\ scans' = Append(scans,
                   [h |-> h, tree |-> trees[h].tree, from |-> from,
                    backwards |-> backwards, prefix |-> prefix,
                    place |-> "none", job |-> "calling",
                    owns |-> Captures,
                    snap |-> EmptyNs, cur |-> None, hold |-> None,
                    chan |-> <<>>, rx |-> "open", got |-> <<>>, failed |-> FALSE,
                    called |-> [k \in Keys |-> Len(hist[trees[h].tree][k])]])
    /\ UNCHANGED <<storeVars, trees, signals, thr, nops, queue, active>>

\* EngineTree::iter_from_thread, up to the wait for the pool's lock: the caller
\* has cloned the handle's Arc<UntypedDatabase> (iter_from) and the Arc<Engine>
\* and has made the channel; nothing is placed yet.  The two clones are one
\* step: the call borrows the handle, which keeps both counts above zero
\* throughout, and nothing else reads the counts between the two.
IterFromThread(h, from, backwards, prefix) ==
    /\ Len(scans) < MaxScans
    /\ h \in engine.held
    /\ engine' = [engine EXCEPT !.rc = @ + 1, !.treeRc[h] = @ + 1]
    /\ scans' = Append(scans,
                   [h |-> h, tree |-> trees[h].tree, from |-> from,
                    backwards |-> backwards, prefix |-> prefix,
                    place |-> "none", job |-> "calling",
                    owns |-> Captures,
                    snap |-> EmptyNs, cur |-> None, hold |-> None,
                    chan |-> <<>>, rx |-> "open", got |-> <<>>, failed |-> FALSE,
                    called |-> [k \in Keys |-> Len(hist[trees[h].tree][k])]])
    /\ UNCHANGED <<storeVars, trees, signals, thr, nops, queue, active>>

\* (variant: the placement test is active_count() <= max_count())
PlaceJob_OffByOne(j) ==
    /\ j \in ScanIds
    /\ scans[j].job = "calling"
    /\ LET pooled == active <= MaxCount
       IN /\ scans' = [scans EXCEPT ![j].place = IF pooled THEN "pool" ELSE "thread",
                                    ![j].job = IF pooled THEN "queued" ELSE "spawned"]
          /\ queue' = IF pooled THEN Append(queue, j) ELSE queue
    /\ UNCHANGED <<engine, storeVars, trees, signals, thr, nops, active>>

\* EngineTree::iter_from_thread, from the pool's lock on: under the lock the job
\* goes to the pool if active_count < max_count and to a new thread otherwise;
\* the call returns the receiver's iterator (wrapped by take_while when prefix
\* is Some).
PlaceJob(j) ==
    /\ j \in ScanIds
    /\ scans[j].job = "calling"
    /\ LET pooled == active < MaxCount
       IN /\ scans' = [scans EXCEPT ![j].place = IF pooled THEN "pool" ELSE "thread",
                                    ![j].job = IF pooled THEN "queued" ELSE "spawned"]
          /\ queue' = IF pooled THEN Append(queue, j) ELSE queue
    /\ UNCHANGED <<engine, storeVars, trees, signals, thr, nops, active>>

\* Tree::iter_from(from, backwards)
IterFrom(h, from, backwards) == IterFromThread(h, from, backwards, None)

\* Tree::iter()
Iter(h) == IterFrom(h, <<>>, FALSE)

\* (variant: the scan is started backwards)
ScanPrefix_Backwards(h, prefix) == IterFromThread(h, prefix, TRUE, Some(prefix))

\* Tree::scan_prefix(prefix): iter_from(&prefix, false).take_while(starts_with)
ScanPrefix(h, prefix) == IterFromThread(h, prefix, FALSE, Some(prefix))

\* The job begins: engine.env.read_txn().unwrap() opens its read transaction.
Started(sc, content) == [sc EXCEPT !.job = "running", !.snap = content[sc.tree]]

\* A pooled worker without a job receives the first job of the queue.
WorkerTake(j) ==
    /\ queue # <<>>
    /\ Head(queue) = j
    /\ Cardinality(PoolBusy) < MaxCount
    /\ queue' = Tail(queue)
    /\ scans' = [scans EXCEPT ![j].job = "taken"]
    /\ UNCHANGED <<engine, storeVars, trees, signals, thr, nops, active>>

\* The worker counts itself active (active_count.fetch_add(1)) before it calls
\* the job.
WorkerCount(j) ==
    /\ j \in ScanIds
    /\ scans[j].job = "taken"
    /\ active' = active + 1
    /\ scans' = [scans EXCEPT ![j].job = "counted"]
    /\ UNCHANGED <<engine, storeVars, trees, signals, thr, nops, queue>>

\* The pooled job opens its read transaction (heed.rs 84).
JobReadTxn(j) ==
    /\ j \in ScanIds
    /\ scans[j].job = "counted"
    /\ scans' = [scans EXCEPT ![j] = Started(@, db)]
    /\ UNCHANGED <<engine, storeVars, trees, signals, thr, nops, queue, active>>

\* The thread made by std::thread::spawn runs and opens its read transaction
\* (heed.rs 88).
ThreadStart(j) ==
    /\ j \in ScanIds
    /\ scans[j].job = "spawned"
    /\ scans' = [scans EXCEPT ![j] = Started(@, db)]
    /\ UNCHANGED <<engine, storeVars, trees, signals, thr, nops, queue, active>>

\* iter_from_thread_work returns: its argument `tree` is dropped, then the read
\* transaction; the closure still owns the Arc<Engine> and the Sender.
JobReturns(j) ==
    /\ scans' = [scans EXCEPT ![j].job = "exiting", ![j].hold = None,
                              ![j].owns = @ \ {"tree"}]
    /\ engine' = DropArcTree(engine, scans[j].h)
    /\ UNCHANGED <<storeVars, trees, signals, thr, nops, queue, active>>

\* (variant: a cursor over the committed content of the moment, not over the
\* read transaction's snapshot)
JobNext_ReadsLive(j) ==
    /\ j \in ScanIds
    /\ scans[j].job = "running"
    /\ scans[j].hold = None
    /\ CursorNext([scans[j] EXCEPT !.snap = db[scans[j].tree]]) \notin {None, CursorErr}
    /\ LET k == CursorNext([scans[j] EXCEPT !.snap = db[scans[j].tree]])[1]
       IN scans' = [scans EXCEPT ![j].cur = Some(k),
                                 ![j].hold = Some(<<k, db[scans[j].tree][k][1]>>)]
    /\ UNCHANGED <<engine, storeVars, trees, signals, thr, nops, queue, active>>

\* The loop reads the next pair from the cursor.
JobNext(j) ==
    /\ j \in ScanIds
    /\ scans[j].job = "running"
    /\ scans[j].hold = None
    /\ CursorNext(scans[j]) \notin {None, CursorErr}
    /\ LET k == CursorNext(scans[j])[1]
       IN scans' = [scans EXCEPT ![j].cur = Some(k),
                                 ![j].hold = Some(<<k, scans[j].snap[k][1]>>)]
    /\ UNCHANGED <<engine, storeVars, trees, signals, thr, nops, queue, active>>

\* The cursor is at its end: the loop ends and the job returns.
JobFinish(j) ==
    /\ j \in ScanIds
    /\ scans[j].job = "running"
    /\ scans[j].hold = None
    /\ CursorNext(scans[j]) = None
    /\ JobReturns(j)

\* (variant: a send that does not wait for room in the channel)
JobSend_Unbounded(j) ==
    /\ j \in ScanIds
    /\ scans[j].job = "running"
    /\ scans[j].hold # None
    /\ scans[j].rx # "dropped"
    /\ scans' = [scans EXCEPT ![j].chan = Append(@, scans[j].hold[1]),
                              ![j].hold = None]
    /\ UNCHANGED <<engine, storeVars, trees, signals, thr, nops, queue, active>>

\* (variant: try_send in place of send, a pair that finds the channel full is
\* left out)
JobSend_TrySend(j) ==
    /\ j \in ScanIds
    /\ scans[j].job = "running"
    /\ scans[j].hold # None
    /\ scans[j].rx # "dropped"
    /\ scans' = [scans EXCEPT ![j].chan = IF Len(@) < ChannelCap
                                          THEN Append(@, scans[j].hold[1]) ELSE @,
                              ![j].hold = None]
    /\ UNCHANGED <<engine, storeVars, trees, signals, thr, nops, queue, active>>

\* (variant: a channel that hands the newest pair over first)
JobSend_Prepends(j) ==
    /\ j \in ScanIds
    /\ scans[j].job = "running"
    /\ scans[j].hold # None
    /\ scans[j].rx # "dropped"
    /\ Len(scans[j].chan) < ChannelCap
    /\ scans' = [scans EXCEPT ![j].chan = <<scans[j].hold[1]>> \o @,
                              ![j].hold = None]
    /\ UNCHANGED <<engine, storeVars, trees, signals, thr, nops, queue, active>>

\* s.send(pair) with the receiver alive: waits while the channel is full
JobSend(j) ==
    /\ j \in ScanIds
    /\ scans[j].job = "running"
    /\ scans[j].hold # None
    /\ scans[j].rx # "dropped"
    /\ Len(scans[j].chan) < ChannelCap
    /\ scans' = [scans EXCEPT ![j].chan = Append(@, scans[j].hold[1]),
                              ![j].hold = None]
    /\ UNCHANGED <<engine, storeVars, trees, signals, thr, nops, queue, active>>

\* s.send(pair) with the receiver dropped: is_err(), the job returns
JobSendFail(j) ==
    /\ j \in ScanIds
    /\ scans[j].job = "running"
    /\ scans[j].hold # None
    /\ scans[j].rx = "dropped"
    /\ JobReturns(j)

\* (variant: the failing job sends an entry without its value before it ends)
JobPanic_SendsPartial(j) ==
    /\ j \in ScanIds
    /\ scans[j].job \in {"counted", "spawned", "running"}
    /\ scans[j].hold = None
    /\ scans' = [scans EXCEPT ![j].job = "exiting", ![j].failed = TRUE,
                              ![j].owns = @ \ {"tree"},
                              ![j].chan = IF Len(@) < ChannelCap
                                          THEN Append(@, <<<<1>>, <<>>>>) ELSE @]
    /\ engine' = DropArcTree(engine, scans[j].h)
    /\ UNCHANGED <<storeVars, trees, signals, thr, nops, queue, active>>

\* engine.env.read_txn().unwrap() (job counted or spawned), or
\* rev_range/iter/range(..).unwrap() or r.unwrap() on a cursor entry (job
\* running) panics: the job's thread unwinds.  The unwinding first drops the
\* argument `tree` and the read transaction, if open; the closure still owns
\* the Arc<Engine> and the Sender.
JobPanic(j) ==
    /\ j \in ScanIds
    /\ scans[j].job \in {"counted", "spawned", "running"}
    /\ scans[j].hold = None
    /\ scans' = [scans EXCEPT ![j].job = "exiting", ![j].failed = TRUE,
                              ![j].owns = @ \ {"tree"}]
    /\ engine' = DropArcTree(engine, scans[j].h)
    /\ UNCHANGED <<storeVars, trees, signals, thr, nops, queue, active>>

\* r.unwrap() on an Err item of the cursor (heed.rs 104): the job panics.
JobCursorPanic(j) ==
    /\ j \in ScanIds
    /\ scans[j].job = "running"
    /\ scans[j].hold = None
    /\ CursorNext(scans[j]) = CursorErr
    /\ JobPanic(j)

\* The closure that has returned, or that unwinds, drops a variable it has
\* captured: the clone of the Arc<Engine> or the Sender, in either order.  A
\* thread of its own ends with the last of them.
JobDrop(j, c) ==
    /\ j \in ScanIds
    /\ scans[j].job = "exiting"
    /\ c \in scans[j].owns
    /\ scans' = [scans EXCEPT ![j].owns = @ \ {c},
                              ![j].job = IF /\ scans[j].place = "thread"
                                            /\ scans[j].owns = {c}
                                         THEN "ended" ELSE @]
    /\ engine' = IF c = "engine" THEN DropArcEngine(engine) ELSE engine
    /\ UNCHANGED <<storeVars, trees, signals, thr, nops, queue, active>>

\* The worker whose job has returned counts itself out
\* (active_count.fetch_sub(1)); after a panic its Sentinel does so and starts
\* the worker that replaces it.
WorkerDone(j) ==
    /\ j \in ScanIds
    /\ scans[j].place = "pool"
    /\ scans[j].job = "exiting"
    /\ scans[j].owns = {}
    /\ active' = active - 1
    /\ scans' = [scans EXCEPT ![j].job = "ended"]
    /\ UNCHANGED <<engine, storeVars, trees, signals, thr, nops, queue>>

\* The consumer pulls a pair: the iterator yields it, or take_while ends the
\* sequence at the first key that does not start with the prefix.
Recv(j) ==
    /\ j \in ScanIds
    /\ scans[j].rx = "open"
    /\ scans[j].chan # <<>>
    /\ LET pair == Head(scans[j].chan)
           pass == scans[j].prefix = None \/ StartsWith(pair[1], scans[j].prefix[1])
       IN scans' = [scans EXCEPT ![j].chan = Tail(@),
                                 ![j].got = IF pass THEN Append(@, pair) ELSE @,
                                 ![j].rx = IF pass THEN "open" ELSE "stopped"]
    /\ UNCHANGED <<engine, storeVars, trees, signals, thr, nops, queue, active>>

\* The consumer pulls from the empty channel whose Sender is dropped: the
\* sequence ends.
RecvEnd(j) ==
    /\ j \in ScanIds
    /\ scans[j].rx = "open"
    /\ scans[j].chan = <<>>
    /\ "s" \notin scans[j].owns
    /\ scans' = [scans EXCEPT ![j].rx = "done"]
    /\ UNCHANGED <<engine, storeVars, trees, signals, thr, nops, queue, active>>

\* The consumer drops the iterator the call has returned, and the receiver
\* with it, before the sequence has ended.
DropIter(j) ==
    /\ j \in ScanIds
    /\ scans[j].job # "calling"
    /\ scans[j].rx \in {"open", "stopped"}
    /\ scans' = [scans EXCEPT ![j].rx = "dropped", ![j].chan = <<>>]
    /\ UNCHANGED <<engine, storeVars, trees, signals, thr, nops, queue, active>>

JobStep(j) ==
    \/ WorkerTake(j)
    \/ WorkerCount(j)
    \/ JobReadTxn(j)
    \/ ThreadStart(j)
    \/ JobNext(j)
    \/ JobFinish(j)
    \/ JobSend(j)
    \/ JobSendFail(j)
    \/ JobCursorPanic(j)
    \/ \E c \in Captures : JobDrop(j, c)
    \/ WorkerDone(j)

(***************************************************************************)
(* One scan of a populated namespace: every content of namespace "a",      *)
(* every start key, both directions, every prefix.                         *)
(***************************************************************************)
Contents == [Keys -> {None} \cup {Some(v) : v \in Values}]

InitIter ==
    /\ EngineOpen
    /\ \E c \in Contents : db = [EmptyDb EXCEPT !["a"] = c]
    /\ hist = EmptyHist
    /\ lastBy = NoHandle
    /\ trees = [h \in DOMAIN TreeNames |-> EngineTree(TreeNames[h])]
    /\ signals = <<>>
    /\ thr = [t \in Threads |-> IdleThread]
    /\ nops = 0
    /\ scans = <<>>
    /\ engine = EngineRefs

NextIter ==
    \/ /\ scans = <<>>
       /\ \/ \E h \in Handles : Iter(h)
          \/ \E h \in Handles, from \in Froms, backwards \in BOOLEAN :
                 IterFrom(h, from, backwards)
          \/ \E h \in Handles, prefix \in Froms : ScanPrefix(h, prefix)
    \/ \E j \in ScanIds : PlaceJob(j)
    \/ \E j \in ScanIds : WorkerTake(j)
    \/ \E j \in ScanIds : WorkerCount(j)
    \/ \E j \in ScanIds : JobReadTxn(j)
    \/ \E j \in ScanIds, c \in Captures : JobDrop(j, c)
    \/ \E j \in ScanIds : WorkerDone(j)
    \/ \E j \in ScanIds : JobNext(j)
    \/ \E j \in ScanIds : JobFinish(j)
    \/ \E j \in ScanIds : JobCursorPanic(j)
    \/ \E j \in ScanIds : JobSend(j)
    \/ \E j \in ScanIds : JobSendFail(j)
    \/ \E j \in ScanIds : Recv(j)
    \/ \E j \in ScanIds : RecvEnd(j)
    \/ \E j \in ScanIds : DropIter(j)

SpecIter == InitIter /\ [][NextIter]_vars

\* The same with jobs that may fail.
NextIterFail ==
    \/ NextIter
    \/ \E j \in ScanIds : JobPanic(j)

SpecIterFail == InitIter /\ [][NextIterFail]_vars

\* The worker or thread of a job runs on, also while it unwinds.
SpecIterFailFair == SpecIterFail /\ \A j \in 1..MaxScans : WF_vars(JobStep(j))

(***************************************************************************)
(* One scan beside the writes of another thread, from an empty store.      *)
(***************************************************************************)
\* The threads that write beside the scan and the handles they write through.
SnapWriters == {1}
SnapHandles == {1}

NextSnap ==
    \/ \E t \in SnapWriters, h \in SnapHandles, k \in OpKeys, v \in Values : InsertCall(t, h, k, v)
    \/ \E t \in SnapWriters, h \in SnapHandles, k \in OpKeys : RemoveCall(t, h, k)
    \/ \E t \in SnapWriters, h \in SnapHandles, k \in OpKeys : IncrementCall(t, h, k)
    \/ \E t \in SnapWriters : WriteTxn(t)
    \/ \E t \in SnapWriters : InsertPut(t)
    \/ \E t \in SnapWriters : RemoveDelete(t)
    \/ \E t \in SnapWriters : IncrementPut(t)
    \/ \E t \in SnapWriters : InsertCommit(t)
    \/ \E t \in SnapWriters : RemoveCommit(t)
    \/ \E t \in SnapWriters : IncrementCommit(t)
    \/ \E t \in SnapWriters : InsertWake(t)
    \/ scans = <<>> /\ \E h \in Handles : Iter(h)
    \/ \E j \in ScanIds : PlaceJob(j)
    \/ \E j \in ScanIds : WorkerTake(j)
    \/ \E j \in ScanIds : WorkerCount(j)
    \/ \E j \in ScanIds : JobReadTxn(j)
    \/ \E j \in ScanIds, c \in Captures : JobDrop(j, c)
    \/ \E j \in ScanIds : WorkerDone(j)
    \/ \E j \in ScanIds : JobNext(j)
    \/ \E j \in ScanIds : JobFinish(j)
    \/ \E j \in ScanIds : JobSend(j)
    \/ \E j \in ScanIds : Recv(j)
    \/ \E j \in ScanIds : RecvEnd(j)

SpecSnap == Init /\ [][NextSnap]_vars

(***************************************************************************)
(* Scan jobs beside callers that drop their handles (the consumers do not  *)
(* act).                                                                   *)
(***************************************************************************)
\* The caller drops its Arc<Engine>, which no call in progress borrows.
DropEngine ==
    /\ 0 \in engine.held
    /\ Opening = {}
    /\ engine' = [Release(engine, {}) EXCEPT !.held = @ \ {0}]
    /\ UNCHANGED <<storeVars, trees, signals, thr, nops, scanVars>>

\* The caller drops the EngineTree h, which no call in progress borrows: its
\* Arc<Engine> and its Arc<UntypedDatabase> are dropped with it.
DropTree(h) ==
    /\ h \in engine.held
    /\ \A j \in ScanIds : scans[j].job = "calling" => scans[j].h # h
    /\ engine' = [Release(engine, {h}) EXCEPT !.held = @ \ {h}]
    /\ UNCHANGED <<storeVars, trees, signals, thr, nops, scanVars>>

OneKeyNs == [EmptyNs EXCEPT ![<<1>>] = Some(<<1>>)]

\* The callers hold the Engine and one handle at first, open two more handles
\* and make two scans, which both go to the pool.
DropNames == <<"a">>
DropTrees == MaxTrees - 1
DropScans == MaxScans - 1

InitDrop ==
    /\ EngineOpen
    /\ db = [EmptyDb EXCEPT !["a"] = OneKeyNs]
    /\ hist = EmptyHist
    /\ lastBy = NoHandle
    /\ trees = [h \in DOMAIN DropNames |-> EngineTree(DropNames[h])]
    /\ signals = <<>>
    /\ thr = [t \in Threads |-> IdleThread]
    /\ nops = 0
    /\ scans = <<>>
    /\ engine = RefsOf(DropNames)

NextDrop ==
    \/ Len(trees) < DropTrees /\ \E name \in Names : OpenTree(name)
    \/ \E h \in DOMAIN trees : OpenTreeTxn(h)
    \/ \E h \in DOMAIN trees : OpenTreeCommit(h)
    \/ \E h \in DOMAIN trees : OpenTreeFail(h)
    \/ Len(scans) < DropScans /\ \E h \in Handles : Iter(h)
    \/ DropEngine
    \/ \E h \in Handles : DropTree(h)
    \/ \E j \in ScanIds : PlaceJob(j)
    \/ \E j \in ScanIds : WorkerTake(j)
    \/ \E j \in ScanIds : WorkerCount(j)
    \/ \E j \in ScanIds : JobReadTxn(j)
    \/ \E j \in ScanIds, c \in Captures : JobDrop(j, c)
    \/ \E j \in ScanIds : WorkerDone(j)
    \/ \E j \in ScanIds : JobNext(j)
    \/ \E j \in ScanIds : JobFinish(j)
    \/ \E j \in ScanIds : JobSend(j)
    \/ \E j \in ScanIds : JobPanic(j)

SpecDrop == InitDrop /\ [][NextDrop]_vars

(***************************************************************************)
(* Concurrent scans of one Engine: the pool and the overflow threads.      *)
(***************************************************************************)
\* The namespace the pool's scans read: more pairs than the channel holds.
PoolNs == [k \in Keys |-> IF k = <<2>> THEN None ELSE Some(<<1>>)]

InitPool ==
    /\ EngineOpen
    /\ db = [EmptyDb EXCEPT !["a"] = PoolNs]
    /\ hist = EmptyHist
    /\ lastBy = NoHandle
    /\ trees = [h \in DOMAIN TreeNames |-> EngineTree(TreeNames[h])]
    /\ signals = <<>>
    /\ thr = [t \in Threads |-> IdleThread]
    /\ nops = 0
    /\ scans = <<>>
    /\ engine = EngineRefs

\* The handle the n-th scan is made through: by turns one of each namespace.
PoolHandle(n) == IF n % 2 = 1 THEN 1 ELSE 3

NextPool ==
    \/ Iter(PoolHandle(Len(scans) + 1))
    \/ \E j \in ScanIds : PlaceJob(j)
    \/ \E j \in ScanIds : WorkerTake(j)
    \/ \E j \in ScanIds : WorkerCount(j)
    \/ \E j \in ScanIds : JobReadTxn(j)
    \/ \E j \in ScanIds, c \in Captures : JobDrop(j, c)
    \/ \E j \in ScanIds : WorkerDone(j)
    \/ \E j \in ScanIds : ThreadStart(j)
    \/ \E j \in ScanIds : JobNext(j)
    \/ \E j \in ScanIds : JobFinish(j)
    \/ \E j \in ScanIds : JobSend(j)
    \/ \E j \in ScanIds : JobSendFail(j)
    \/ \E j \in ScanIds : Recv(j)
    \/ \E j \in ScanIds : RecvEnd(j)
    \/ \E j \in ScanIds : DropIter(j)

SpecPool == InitPool /\ [][NextPool]_vars

\* A step of a scan that its caller, a worker or its thread takes.
ScanStep(j) == PlaceJob(j) \/ JobStep(j)

\* Callers, workers and threads run: a call in progress places its job and a
\* job that can take a step eventually takes one.  Nothing obliges a consumer
\* to pull or to drop.
SpecPoolFair == SpecPool /\ \A j \in 1..MaxScans : WF_vars(ScanStep(j))

(***************************************************************************)
(* Claims about the point operations                                       *)
(***************************************************************************)
GetReturned(t) ==
    thr[t].pc = "idle" /\ thr[t].op = "get" /\ thr[t].ret.tag = "ok"

\* C1: a get whose read transaction starts when the last committed write of
\* its key, through any handle of the namespace, is insert(k, v) returns Some(v).
C1_InsertThenGet ==
    \A t \in Threads :
        (GetReturned(t) /\ thr[t].expect.op = "insert")
            => thr[t].ret.val = Some(thr[t].expect.val)

\* A get through a handle that open_tree has made in the course of the
\* behaviour has returned the value inserted through another handle of the
\* same namespace.
C1_Witness ==
    \E t \in Threads :
        /\ GetReturned(t)
        /\ thr[t].expect.op = "insert"
        /\ thr[t].h > Len(TreeNames)
        /\ thr[t].expect.h # thr[t].h
        /\ thr[t].ret.val = Some(thr[t].expect.val)

\* The committed value a write leaves under its key.
ValueAfter(w) == IF w.op \in {"insert", "increment"} THEN Some(w.val) ELSE None

\* C2: a get whose read transaction starts when the last committed write of
\* its key is a remove returns None, whether or not the key was present before
\* the remove; and every key holds what its own last write left, so that a
\* remove changes no key but its own.
C2_RemoveThenGet ==
    /\ \A t \in Threads :
           (GetReturned(t) /\ thr[t].expect.op = "remove") => thr[t].ret.val = None
    /\ \A n \in Names, k \in Keys : db[n][k] = ValueAfter(LastWrite(n, k))

\* A remove of a key that was never written has committed and returned, a later
\* get of the key has returned None, and another key still holds its inserted
\* value.
C2_Witness ==
    \E t \in Threads, n \in Names, k \in Keys :
        /\ \A u \in Threads : thr[u].pc = "idle"
        /\ hist[n][k] # <<>>
        /\ hist[n][k][1].op = "remove"
        /\ GetReturned(t) /\ thr[t].expect.op = "remove" /\ thr[t].ret.val = None
        /\ \E x \in Keys : db[n][x] # None

IncOnly(n, k) == \A i \in DOMAIN hist[n][k] : hist[n][k][i].op = "increment"

\* C3: for a key that only increment has written, the i-th increment to commit
\* returned the big-endian encoding of i, the returned values are pairwise
\* distinct, and the key holds the last returned value.
C3_LinearizableIncrement ==
    \A n \in Names, k \in Keys :
        IncOnly(n, k) =>
            /\ \A i \in DOMAIN hist[n][k] : hist[n][k][i].val = ToBeBytes(i)
            /\ \A i, j \in DOMAIN hist[n][k] :
                   i # j => hist[n][k][i].val # hist[n][k][j].val
            /\ db[n][k] = IF hist[n][k] = <<>> THEN None
                          ELSE Some(hist[n][k][Len(hist[n][k])].val)

\* At least two increments of a key that nothing else has written have
\* committed, and the key holds the encoding of their number.
C3_Witness ==
    \E n \in Names, k \in Keys :
        /\ IncOnly(n, k)
        /\ Len(hist[n][k]) >= 2
        /\ db[n][k] = Some(ToBeBytes(Len(hist[n][k])))

(***************************************************************************)
(* Claims about range iteration                                            *)
(***************************************************************************)
KeysOf(pairs) == {pairs[i][1] : i \in DOMAIN pairs}

Ascending(pairs) ==
    \A i \in 1..(Len(pairs) - 1) : KeyLess(pairs[i][1], pairs[i + 1][1])

Descending(pairs) ==
    \A i \in 1..(Len(pairs) - 1) : KeyLess(pairs[i + 1][1], pairs[i][1])

\* Every pair is a pair of the namespace content ns.
PairsFrom(pairs, ns) ==
    \A i \in DOMAIN pairs : ns[pairs[i][1]] = Some(pairs[i][2])

\* C4: a fully consumed iter_from(from, backwards) has yielded, of the
\* namespace content: every pair in ascending order when forwards with an empty
\* from; the pairs with key >= from in ascending order when forwards with a
\* non-empty from; the pairs with key <= from in descending order when backwards.
C4_IterFromRange ==
    \A j \in ScanIds :
        (scans[j].rx = "done" /\ scans[j].prefix = None) =>
            LET ns == db[scans[j].tree]
                from == scans[j].from
                got == scans[j].got
            IN /\ PairsFrom(got, ns)
               /\ IF scans[j].backwards
                  THEN /\ KeysOf(got) = {k \in Present(ns) : KeyLeq(k, from)}
                       /\ Descending(got)
                  ELSE IF from = <<>>
                  THEN /\ KeysOf(got) = Present(ns)
                       /\ Ascending(got)
                  ELSE /\ KeysOf(got) = {k \in Present(ns) : KeyLeq(from, k)}
                       /\ Ascending(got)

\* A fully consumed backwards scan that began at `from` itself, went on to a
\* smaller key and left out a greater key of the namespace.
C4_Witness ==
    \E j \in ScanIds :
        /\ scans[j].rx = "done"
        /\ scans[j].prefix = None
        /\ scans[j].backwards
        /\ Len(scans[j].got) >= 2
        /\ scans[j].got[1][1] = scans[j].from
        /\ \E k \in Present(db[scans[j].tree]) : KeyLess(scans[j].from, k)

\* C5: scan_prefix(p) never yields a pair whose key does not start with p, and
\* once consumed to its end it has yielded exactly the pairs of the namespace
\* whose key starts with p, each once, in ascending key order.
C5_ScanPrefix ==
    \A j \in ScanIds :
        scans[j].prefix # None =>
            LET ns == db[scans[j].tree]
                p == scans[j].prefix[1]
                got == scans[j].got
            IN /\ \A i \in DOMAIN got : StartsWith(got[i][1], p)
               /\ scans[j].rx \in {"stopped", "done"} =>
                      /\ KeysOf(got) = {k \in Present(ns) : StartsWith(k, p)}
                      /\ Ascending(got)
                      /\ PairsFrom(got, ns)

\* A scan_prefix that yielded two pairs and was ended by a key without the
\* prefix.
C5_Witness ==
    \E j \in ScanIds :
        /\ scans[j].prefix # None
        /\ scans[j].rx = "stopped"
        /\ Len(scans[j].got) >= 2

\* C9: whenever the consumer has dropped a scan's iterator, the job eventually
\* ends, its read transaction with it, and the pool counts as active only the
\* workers that run a job; and from the drop on the job reads at most the pair
\* of its next send.
C9_Cancellation ==
    /\ \A j \in 1..MaxScans :
           (j \in ScanIds /\ scans[j].rx = "dropped")
               ~> (/\ j \in ScanIds
                   /\ scans[j].job = "ended"
                   /\ active = Cardinality(PoolActive))
    /\ [][\A j \in ScanIds :
             (scans[j].rx = "dropped" /\ scans[j].hold # None)
                 => scans'[j].cur = scans[j].cur]_vars

\* C10: every job made by iter_from eventually starts to run.
C10_ScanStarts ==
    \A j \in 1..MaxScans :
        (j \in ScanIds /\ scans[j].job \in {"queued", "taken", "counted", "spawned"})
            ~> (j \in ScanIds /\ scans[j].job \in {"running", "exiting", "ended"})

(***************************************************************************)
(* Claims about the channel between a scan job and its consumer            *)
(***************************************************************************)
\* The pairs the cursor of scan sc yields, in its order, after position cur
\* (up to its end or to an Err item).
RECURSIVE CursorSeqFrom(_, _)
CursorSeqFrom(sc, cur) ==
    LET n == CursorNext([sc EXCEPT !.cur = cur])
    IN IF n \in {None, CursorErr} THEN <<>>
       ELSE <<<<n[1], sc.snap[n[1]][1]>>>> \o CursorSeqFrom(sc, n)

\* The whole sequence of the cursor of scan sc.
CursorSeq(sc) == CursorSeqFrom(sc, None)

\* The number of pairs the job of scan sc has read from its cursor.
ReadCount(sc) ==
    IF sc.cur = None THEN 0
    ELSE CHOOSE i \in DOMAIN CursorSeq(sc) : CursorSeq(sc)[i][1] = sc.cur[1]

\* How many pairs the job is ahead of a consumer that is still pulling.
Ahead(sc) == ReadCount(sc) - Len(sc.got)

\* C11 as stated: the channel never holds more than its capacity, the job is
\* never more than that many pairs ahead of its consumer, and while the channel
\* is full the job does not advance its cursor.
C11_Backpressure_Stated ==
    [][\A j \in ScanIds :
          /\ Len(scans[j].chan) <= ChannelCap
          /\ scans[j].rx = "open" => Ahead(scans[j]) <= ChannelCap
          /\ Len(scans[j].chan) = ChannelCap => scans'[j].cur = scans[j].cur]_vars

\* C11, amended: the channel never holds more than its capacity; the job is
\* never more than capacity + 1 pairs ahead of its consumer (the pairs in the
\* channel and the one it is sending); and while the channel is full and the
\* job is sending a pair, the job neither advances its cursor nor lets go of the
\* pair.
C11_Backpressure ==
    [][\A j \in ScanIds :
          /\ Len(scans[j].chan) <= ChannelCap
          /\ scans[j].rx = "open" => Ahead(scans[j]) <= ChannelCap + 1
          /\ (/\ Len(scans[j].chan) = ChannelCap
              /\ scans[j].hold # None
              /\ scans'[j].rx = "open"
              /\ scans'[j].chan = scans[j].chan)
                 => /\ scans'[j].cur = scans[j].cur
                    /\ scans'[j].hold = scans[j].hold]_vars

\* A job blocked in send on a full channel, capacity + 1 pairs ahead of a
\* consumer that has already taken a pair.
C11_Witness ==
    \E j \in ScanIds :
        /\ scans[j].rx = "open"
        /\ scans[j].job = "running"
        /\ Len(scans[j].chan) = ChannelCap
        /\ scans[j].hold # None
        /\ Len(scans[j].got) >= 1
        /\ Ahead(scans[j]) = ChannelCap + 1

\* s is a prefix of q.
IsPrefix(s, q) == Len(s) <= Len(q) /\ \A i \in DOMAIN s : s[i] = q[i]

\* C16: at every moment the pairs the consumer has received, followed by those
\* in the channel and the one being sent, are a prefix of the cursor's
\* sequence; a consumer that has pulled to the end of a scan whose job did not
\* fail has received the whole sequence; and an ended sequence stays ended and
\* yields nothing more.
C16_Step ==
    \A j \in ScanIds :
        LET sc == scans[j]
            inHand == IF sc.hold = None THEN <<>> ELSE <<sc.hold[1]>>
        IN /\ IsPrefix(sc.got, CursorSeq(sc))
           /\ sc.rx = "open" => IsPrefix(sc.got \o sc.chan \o inHand, CursorSeq(sc))
           /\ (sc.rx = "done" /\ ~sc.failed /\ sc.prefix = None)
                  => sc.got = CursorSeq(sc)
           /\ sc.rx \in {"done", "stopped"}
                  => scans'[j].rx # "open" /\ scans'[j].got = sc.got

C16_LazySequence == [][C16_Step]_vars

\* A consumer has received the first pairs of a scan of four while the job,
\* which has read to the end and has ended, has left two more pairs in the
\* channel at once: the pairs received and those waiting make up the whole
\* sequence.
C16_Witness ==
    \E j \in ScanIds :
        /\ scans[j].rx = "open"
        /\ scans[j].job = "ended"
        /\ ~scans[j].failed
        /\ scans[j].prefix = None
        /\ Len(scans[j].got) >= 2
        /\ Len(scans[j].chan) >= 2
        /\ scans[j].got \o scans[j].chan = CursorSeq(scans[j])

\* The content of key k of namespace n after the first i committed writes of k.
ContentAt(n, k, i) == IF i = 0 THEN None ELSE ValueAfter(hist[n][k][i])

\* C17: every pair a scan has read is a pair of the one snapshot its job took
\* when it opened its read transaction; the snapshot holds, for every key, what
\* a write committed no earlier than the last one before the call of iter_from
\* left; commits made while the job runs do not change the snapshot; and a step
\* of the job or its consumer touches neither the writer slot, nor the committed
\* content, nor a thread's call.
C17_Step ==
    \A j \in ScanIds :
        LET sc == scans[j]
            inHand == IF sc.hold = None THEN <<>> ELSE <<sc.hold[1]>>
        IN /\ PairsFrom(sc.got \o sc.chan \o inHand, sc.snap)
           /\ sc.job \in {"running", "exiting", "ended"}
                  => /\ scans'[j].snap = sc.snap
                     /\ \A k \in Keys :
                            \E i \in sc.called[k]..Len(hist[sc.tree][k]) :
                                sc.snap[k] = ContentAt(sc.tree, k, i)
           /\ scans'[j] # sc => writer' = writer /\ db' = db /\ thr' = thr

C17_SnapshotIsolation == [][C17_Step]_vars

\* A scan has been pulled to its end and has yielded a pair written before
\* iter_from was called, while a write committed after the job had opened its
\* read transaction has changed the namespace.
C17_Witness ==
    \E j \in ScanIds :
        /\ scans[j].rx = "done"
        /\ scans[j].got # <<>>
        /\ \E k \in Keys : scans[j].called[k] > 0 /\ k \in KeysOf(scans[j].got)
        /\ db[scans[j].tree] # scans[j].snap
        /\ scans[j].got = CursorSeq(scans[j])

\* The scans whose job has not ended: being placed, queued, with a worker,
\* spawned or running.
LiveJobs == {j \in ScanIds : scans[j].job \notin {"exiting", "ended"}}

\* The scans whose job's closure still owns a reference.
OwningJobs == {j \in ScanIds : scans[j].owns \cap {"tree", "engine"} # {}}

\* C18: while a scan job is queued or running, the environment is open and the
\* database handle the job was given is alive, whatever handles the callers
\* have dropped; the environment is open exactly while something refers to the
\* Engine; the references are those of the handles the callers hold and of the
\* closures that have not dropped theirs; once every handle is dropped and
\* every closure has dropped what it captured nothing refers to the Engine
\* any more, and a job that has ended owns nothing.  (A call of open_tree in
\* progress holds the clone it has made.)
C18_SharedOwnership ==
    /\ \A j \in LiveJobs : engine.open /\ engine.rc > 0 /\ engine.treeRc[scans[j].h] > 0
    /\ engine.open <=> engine.rc > 0
    /\ (engine.held = {} /\ OwningJobs = {})
           => engine.rc = 0 /\ \A h \in DOMAIN engine.treeRc : engine.treeRc[h] = 0
    /\ engine.rc = Cardinality(engine.held) + Cardinality(Opening)
                      + Cardinality({j \in ScanIds : "engine" \in scans[j].owns})
    /\ \A j \in ScanIds : scans[j].job = "ended" => scans[j].owns = {}

\* The callers have dropped the Engine and every Tree while a job made through
\* a handle that open_tree has made meanwhile is still queued and another is
\* running.
C18_Witness ==
    /\ engine.held = {}
    /\ engine.open
    /\ \E j \in ScanIds : scans[j].job = "queued" /\ scans[j].h > Len(DropNames)
    /\ \E j \in ScanIds : scans[j].job = "running" /\ scans[j].cur # None

\* C19: a job that has failed (at read_txn or at a cursor entry) unwinds or has
\* ended, and no pair is left half sent; what the consumer has received and
\* what the channel still holds are whole pairs of the snapshot, in cursor
\* order; a consumer that has pulled to the end has received exactly the pairs
\* the job had read; and the unwinding eventually drops the sender, from when
\* on a pull returns at once, with a pair or with the end.
C19_FailedJob ==
    /\ [](\A j \in ScanIds :
             LET sc == scans[j]
             IN sc.failed =>
                    /\ sc.job \in {"exiting", "ended"}
                    /\ sc.hold = None
                    /\ PairsFrom(sc.got \o sc.chan, sc.snap)
                    /\ IsPrefix(sc.got, CursorSeq(sc))
                    /\ sc.rx = "open" => IsPrefix(sc.got \o sc.chan, CursorSeq(sc))
                    /\ (sc.rx = "done" /\ sc.prefix = None) =>
                           /\ sc.chan = <<>>
                           /\ Len(sc.got) = ReadCount(sc))
    /\ \A j \in 1..MaxScans :
           (j \in ScanIds /\ scans[j].failed)
               ~> (j \in ScanIds /\ "s" \notin scans[j].owns)

\* A consumer has pulled to its end a scan whose job failed after it had sent
\* a pair and before it had read the whole range.
C19_Witness ==
    \E j \in ScanIds :
        /\ scans[j].failed
        /\ scans[j].rx = "done"
        /\ scans[j].prefix = None
        /\ Len(scans[j].got) >= 1
        /\ Len(scans[j].got) < Len(CursorSeq(scans[j]))

\* C20: iter_from_thread hands the job to the pool exactly when, at the moment
\* of its test under the pool's lock, the pool's active count is below its
\* maximum, and otherwise starts a thread; nothing is placed before the test;
\* a job on a thread of its own never changes the pool's queue or count; the
\* count is the number of pooled workers that have counted themselves active
\* for a job, and the jobs in the hands of pooled workers never exceed the
\* maximum, over all the handles of the Engine.
C20_Step ==
    /\ active = Cardinality(PoolActive)
    /\ Cardinality(PoolBusy) <= MaxCount
    /\ \A j \in ScanIds :
           (scans[j].job = "calling" /\ scans'[j].job # "calling") =>
               LET sc == scans'[j]
               IN /\ sc.place = "pool" <=> active < MaxCount
                  /\ sc.place = "pool" => sc.job = "queued" /\ queue' = Append(queue, j)
                  /\ sc.place = "thread" => sc.job = "spawned" /\ queue' = queue
                  /\ sc.place \in {"pool", "thread"}
                  /\ active' = active
    /\ Len(scans') = Len(scans) + 1 =>
           /\ scans'[Len(scans')].job = "calling"
           /\ queue' = queue /\ active' = active
    /\ \A j \in ScanIds :
           (scans[j].place = "thread" /\ scans'[j] # scans[j])
               => queue' = queue /\ active' = active

C20_Placement == [][C20_Step]_vars

\* Every pooled worker runs a job, for handles of different namespaces, and a
\* further job runs on a thread of its own.
C20_Witness ==
    /\ Cardinality(PoolRunning) = MaxCount
    /\ \E i, j \in PoolRunning : scans[i].tree # scans[j].tree
    /\ \E j \in ScanIds : scans[j].place = "thread" /\ scans[j].job = "running"

(***************************************************************************)
(* Claims about change notification                                        *)
(***************************************************************************)
Pending(w) == w \in DOMAIN signals /\ signals[w].state = "pending"
Completed(w) == w \in DOMAIN signals /\ signals[w].state = "completed"

\* Thread t takes the wake step of its insert.
WakeStep(t) == thr[t].pc = "wake" /\ thr'[t].pc = "idle"

C6_Step ==
    /\ \A w \in DOMAIN signals :
           \* completed only by the wake of an insert that is still in progress
           \* when the signal is already registered, and whose key it matches
        /\ (signals[w].state = "pending" /\ signals'[w].state = "completed")
               => \E t \in Threads :
                      /\ WakeStep(t)
                      /\ thr[t].op = "insert"
                      /\ StartsWith(thr[t].key, signals[w].prefix)
                      /\ signals'[w].by = thr[t].key
           \* at most once
        /\ signals[w].state = "completed" => signals'[w] = signals[w]
        /\ signals'[w].fires <= 1
           \* a completed signal has left the registry
        /\ signals'[w].state = "completed"
               => \A h \in DOMAIN trees' : w \notin trees'[h].watchers
    /\ \A w \in DOMAIN signals' :
           \* a new signal is pending whatever was inserted before
           w \notin DOMAIN signals
               => signals'[w].state = "pending" /\ signals'[w].fires = 0

\* C6: a watcher is completed at most once, only by a wake(k) called after its
\* registration with its prefix a prefix of k, never by an earlier insert, and a
\* completed watcher is not in the registry.
C6_WatcherFiresOnce == [][C6_Step]_vars

\* The keys starting with prefix whose latest committed write is an insert
\* through handle h.
MatchingInserts(h, prefix) ==
    {k \in Keys :
        /\ hist[trees[h].tree][k] # <<>>
        /\ LastWrite(trees[h].tree, k).op = "insert"
        /\ LastWrite(trees[h].tree, k).h = h
        /\ StartsWith(k, prefix)}

\* A completed watcher on a handle through which inserts of two matching keys
\* have committed and returned.
C6_Witness ==
    \E w \in DOMAIN signals :
        /\ signals[w].state = "completed"
        /\ signals[w].fires = 1
        /\ \A t \in Threads : thr[t].pc = "idle"
        /\ Cardinality(MatchingInserts(signals[w].h, signals[w].prefix)) >= 2

\* C7: once a watcher is registered on a handle and an insert through that
\* handle with a matching key has committed, the watcher is eventually
\* completed; the wake of an insert whose key does not match leaves it pending.
C7_NoLostWakeup ==
    /\ \A t \in Threads, w \in 1..MaxOps :
           (/\ Pending(w)
            /\ thr[t].pc = "wake"
            /\ thr[t].h = signals[w].h
            /\ StartsWith(thr[t].key, signals[w].prefix)) ~> Completed(w)
    /\ [][\A t \in Threads, w \in DOMAIN signals :
             (WakeStep(t) /\ signals[w].state = "pending"
                 /\ ~StartsWith(thr[t].key, signals[w].prefix))
                 => signals'[w].state = "pending"]_vars

\* One watcher completed by an insert while another on the same handle, whose
\* prefix the inserted key does not start with, is still pending.
C7_Witness ==
    \E w, x \in DOMAIN signals :
        /\ signals[w].state = "completed"
        /\ signals[x].state = "pending"
        /\ signals[x].h = signals[w].h
        /\ ~StartsWith(signals[w].by, signals[x].prefix)

\* A step of thread t's call.
StepOf(t) == thr'[t] # thr[t]

\* C12: an insert that fails at write_txn, at put or at commit returns an
\* error; up to and including the failure it completes no watcher, removes
\* none from a registry and leaves the committed content unchanged.
C12_InsertFailure ==
    [][\A t \in Threads :
          (thr[t].op = "insert" /\ StepOf(t)) =>
              /\ (thr[t].pc \in {"begin", "body", "commit"} /\ thr'[t].pc = "idle")
                     => thr'[t].ret.tag = "err"
              /\ (thr[t].pc \in {"begin", "body"} \/ thr'[t].ret.tag = "err")
                     => /\ db' = db
                        /\ signals' = signals
                        /\ trees' = trees]_vars

\* An insert has returned an error while a watcher of every key is pending and
\* registered on the handle it went through, and nothing has been committed.
C12_Witness ==
    \E t \in Threads, w \in DOMAIN signals :
        /\ thr[t].pc = "idle"
        /\ thr[t].op = "insert"
        /\ thr[t].ret.tag = "err"
        /\ signals[w].h = thr[t].h
        /\ signals[w].prefix = <<>>
        /\ signals[w].state = "pending"
        /\ w \in trees[thr[t].h].watchers
        /\ db = EmptyDb

\* C13: no step of a remove or of an increment changes a signal or a registry:
\* they complete no watcher and remove none, whatever its prefix.
C13_OnlyInsertWakes ==
    [][\A t \in Threads :
          (thr[t].op \in {"remove", "increment"} /\ StepOf(t))
              => signals' = signals /\ trees' = trees]_vars

\* A watcher made by the first call is still pending and registered after a
\* remove and an increment of a key that starts with its non-empty prefix have
\* committed and returned, the last of them through the watcher's handle.
C13_Witness ==
    \E w \in DOMAIN signals, k \in Keys :
        LET h == signals[w].h
            n == trees[h].tree
        IN /\ signals[w].seq = 1
           /\ signals[w].state = "pending"
           /\ w \in trees[h].watchers
           /\ signals[w].prefix # <<>>
           /\ StartsWith(k, signals[w].prefix)
           /\ \E i \in DOMAIN hist[n][k] : hist[n][k][i].op = "remove"
           /\ \E i \in DOMAIN hist[n][k] : hist[n][k][i].op = "increment"
           /\ lastBy[n][k] = h
           /\ \A t \in Threads : thr[t].pc = "idle"

\* C14: the registry's lock is taken inside watch_prefix, which a thread calls
\* between its store calls, and inside the wake of insert.  A thread at either
\* place holds no write transaction, and every change of a signal or of the
\* registry of a handle is made by a thread at one of them (open_tree, which
\* runs a write transaction, makes a registry of its own and touches no other).
C14_NoLockAcrossTxn ==
    [][/\ \A t \in Threads : thr[t].pc \in {"idle", "wake"} => writer # t
       /\ ((\E h \in Handles : trees'[h] # trees[h]) \/ signals' # signals)
              => \/ \E t \in Threads :
                        thr[t].pc = "wake" /\ StepOf(t) /\ writer # t
                 \/ /\ Len(signals') = Len(signals) + 1
                    /\ thr' = thr
                    /\ \E t \in Threads : thr[t].pc = "idle" /\ writer # t]_vars

\* One thread has woken a watcher while another thread's write transaction is
\* open.
C14_Witness ==
    \E t, u \in Threads, w \in DOMAIN signals :
        /\ t # u
        /\ thr[t].pc = "idle"
        /\ thr[t].op = "insert"
        /\ thr[t].ret.tag = "ok"
        /\ signals[w].state = "completed"
        /\ writer = u
        /\ thr[u].pc \in {"body", "commit"}

\* C15: when the wake of insert(k, v) completes a watcher, the insert is
\* already among the committed writes of k; and a get of k whose read
\* transaction starts when such a completed signal exists returns what the last
\* committed write of k left, which is that insert or a later write: never the
\* content of before any write.
C15_CommittedBeforeWake ==
    [][/\ \A t \in Threads, w \in DOMAIN signals :
              (WakeStep(t) /\ signals[w].state = "pending"
                  /\ signals'[w].state = "completed")
                  => \E i \in DOMAIN hist[TreeOf(t)][thr[t].key] :
                         hist[TreeOf(t)][thr[t].key][i] =
                             [op |-> "insert", val |-> thr[t].val]
       /\ \A t \in Threads :
              (GetReturned(t) /\ thr[t].after)
                  => /\ thr[t].expect.op = "insert"
                     /\ thr[t].ret.val = Some(thr[t].expect.val)]_vars

\* A get that started after a watcher made by the first call was completed has
\* returned the inserted value, read through another handle than the insert's.
C15_Witness ==
    \E t \in Threads, w \in DOMAIN signals :
        /\ GetReturned(t)
        /\ thr[t].after
        /\ signals[w].state = "completed"
        /\ signals[w].seq = 1
        /\ signals[w].h = thr[t].expect.h
        /\ thr[t].h # thr[t].expect.h
        /\ thr[t].ret.val = Some(thr[t].expect.val)

\* C8: the wake of an insert through any handle completes every pending watcher
\* of the same namespace whose prefix the key starts with, whichever handle the
\* watcher was registered through.
C8_PerNamespaceWake ==
    [][\A t \in Threads, w \in DOMAIN signals :
          (WakeStep(t) /\ signals[w].state = "pending"
              /\ trees[signals[w].h].tree = TreeOf(t)
              /\ StartsWith(thr[t].key, signals[w].prefix))
              => signals'[w].state = "completed"]_vars

====
